---- MODULE Spec2Model ----
(***************************************************************************)
(* Model of the B-spline construction front-end of enterpolation:          *)
(* src/src/bspline/builder.rs (BSplineDirector, the eager builder, and     *)
(* BSplineBuilder, the deferred builder) and src/src/base/space.rs (the    *)
(* workspace providers).                                                   *)
(*                                                                         *)
(* One behaviour of the model is one chain of configuration calls, applied *)
(* with the same arguments to a BSplineDirector and to a BSplineBuilder.   *)
(* The type-state of the builders (which of K, E, S are still Unknown) is  *)
(* the variable stage.                                                     *)
(***************************************************************************)
EXTENDS Integers, Sequences, FiniteSets, TLC

\* ------------------------------------------------------------------ bounds
\* Largest number of control elements a chain supplies.
MaxElements == 3
\* Largest number of explicit knots a chain supplies.
MaxKnots == 4
\* Knot values and domain bounds are drawn from 0..MaxValue.
MaxValue == 1
\* Largest degree / quantity / fixed workspace capacity a chain supplies.
MaxArg == 3
\* Weights are drawn from 0..MaxWeight.
MaxWeight == 2
\* usize is modelled UsizeBits wide (the arithmetic is that of a 64-bit usize,
\* with the wrap-around point moved down).
UsizeBits == 8

RECURSIVE Pow2(_)
Pow2(b) == IF b = 0 THEN 1 ELSE 2 * Pow2(b - 1)

Modulus == Pow2(UsizeBits)

\* ------------------------------------------------------- usize arithmetic
\* The result of a usize operation that overflowed in a build with overflow
\* checks (debug profile): the thread panics.
Overflow == 0 - 1

\* a - b on usize. With overflow checks the subtraction panics when b > a;
\* without them (release profile) it wraps.
USub(oc, a, b) ==
    IF a = Overflow \/ b = Overflow THEN Overflow
    ELSE IF a >= b THEN a - b
    ELSE IF oc THEN Overflow
    ELSE a - b + Modulus

\* a + b on usize.
UAdd(oc, a, b) ==
    IF a = Overflow \/ b = Overflow THEN Overflow
    ELSE IF a + b < Modulus THEN a + b
    ELSE IF oc THEN Overflow
    ELSE a + b - Modulus

\* ------------------------------------------------------------------ errors
NoError == [enum |-> "None", kind |-> "None", value |-> 0]

\* The error struct NotSorted, as Sorted::new returns it.
NotSortedAt(i) == [enum |-> "NotSorted", kind |-> "NotSorted", value |-> i]

\* A variant of the enum BSplineError.
BSplineError(kind, v) == [enum |-> "BSplineError", kind |-> kind, value |-> v]

\* From<...> for BSplineError: the error struct becomes the variant of its kind.
IntoBSplineError(e) == [enum |-> "BSplineError", kind |-> e.kind, value |-> e.value]

\* InvalidDegree::new(degree).into()
InvalidDegree(degree) == BSplineError("InvalidDegree", degree)

ErrorKinds == {"NotSorted", "InvalidDegree", "TooFewElements", "TooSmallWorkspace"}

\* --------------------------------------------------------- knot generators
\* K = Unknown
UnknownKnots ==
    [type |-> "Unknown", gen |-> "Unknown", seq |-> <<>>, border |-> 0, len |-> 0,
     deg |-> 0, start |-> 0, num |-> 0, den |-> 1]

\* Type<R>: the marker equidistant() stores.
TypeKnots == [UnknownKnots EXCEPT !.type = "Type"]

\* UnknownDomain::new(len, deg)
UnknownDomain(len, deg) == [UnknownKnots EXCEPT !.type = "UnknownDomain", !.len = len, !.deg = deg]

\* First index i (0-based) with knot[i] > knot[i+1], or Len(s) when there is none.
RECURSIVE FirstDescent(_, _)
FirstDescent(s, i) ==
    IF i + 1 >= Len(s) THEN Len(s)
    ELSE IF s[i + 1] > s[i + 2] THEN i
    ELSE FirstDescent(s, i + 1)

\* Sorted::new(knots): the sortedness guard.
SortedNew(knots) ==
    IF FirstDescent(knots, 0) < Len(knots)
    THEN [ok |-> FALSE, knots |-> UnknownKnots, err |-> NotSortedAt(FirstDescent(knots, 0))]
    ELSE [ok |-> TRUE, knots |-> [UnknownKnots EXCEPT !.type = "Sorted", !.gen = "Sorted", !.seq = knots,
                                                !.len = Len(knots)],
          err |-> NoError]

\* Equidistant::new(len, start, end): step = (end - start) / (len - 1).
EquidistantNew(len, start, end) ==
    [UnknownKnots EXCEPT !.type = "Equidistant", !.gen = "Equidistant", !.len = len,
                         !.start = start, !.num = end - start, !.den = len - 1]

\* Equidistant::normalized(len)
EquidistantNormalized(len) == EquidistantNew(len, 0, 1)

\* Equidistant::step(len, start, step)
EquidistantStep(len, start, step) ==
    [UnknownKnots EXCEPT !.type = "Equidistant", !.gen = "Equidistant", !.len = len,
                         !.start = start, !.num = step, !.den = 1]

\* BorderBuffer::new(inner, n): the clamped adaptor, n virtual copies of the
\* first and of the last knot of inner.
BorderBufferNew(inner, n) == [inner EXCEPT !.type = "BorderBuffer", !.border = n]

\* BorderDeletion::new(inner): the legacy adaptor; it needs two knots to delete.
BorderDeletionNew(inner) ==
    IF inner.len < 2
    THEN [ok |-> FALSE, knots |-> UnknownKnots, err |-> BSplineError("TooFewElements", inner.len)]
    ELSE [ok |-> TRUE, knots |-> [inner EXCEPT !.type = "BorderDeletion"], err |-> NoError]

\* DiscreteGenerator::len of a knot generator: the logical knot count.
KnotsLen(oc, k) ==
    CASE k.type = "BorderBuffer" -> UAdd(oc, k.len, UAdd(oc, k.border, k.border))
      [] k.type = "BorderDeletion" -> USub(oc, k.len, 2)
      [] OTHER -> k.len

\* No descent in the logical knot sequence: an explicit sequence is compared
\* entry by entry; an equidistant one descends exactly when its step is negative
\* and it has two knots to compare.
KnotsSorted(k) ==
    IF k.gen = "Sorted" THEN FirstDescent(k.seq, 0) = Len(k.seq)
    ELSE k.len <= 1 \/ k.num * k.den >= 0

\* ---------------------------------------------------------------- scalars
\* A scalar R is an exact fraction <<numerator, denominator>> in lowest terms
\* with a positive denominator; NaN is what a division of zero by zero gives.
RECURSIVE Gcd(_, _)
Gcd(a, b) == IF b = 0 THEN a ELSE Gcd(b, a % b)

Abs(x) == IF x < 0 THEN 0 - x ELSE x

NaN == <<0, 0>>

Rat(num, den) ==
    IF den = 0 THEN NaN
    ELSE LET g == Gcd(Abs(num), Abs(den))
             sign == IF den < 0 THEN 0 - 1 ELSE 1
         IN  <<(sign * num) \div g, (sign * den) \div g>>

IsNaN(a) == a[2] = 0
RAdd(a, b) == IF IsNaN(a) \/ IsNaN(b) THEN NaN ELSE Rat(a[1] * b[2] + b[1] * a[2], a[2] * b[2])
RSub(a, b) == IF IsNaN(a) \/ IsNaN(b) THEN NaN ELSE Rat(a[1] * b[2] - b[1] * a[2], a[2] * b[2])
RMul(a, b) == IF IsNaN(a) \/ IsNaN(b) THEN NaN ELSE Rat(a[1] * b[1], a[2] * b[2])
RDiv(a, b) == IF IsNaN(a) \/ IsNaN(b) THEN NaN ELSE Rat(a[1] * b[2], a[2] * b[1])
RLe(a, b) == ~IsNaN(a) /\ ~IsNaN(b) /\ a[1] * b[2] <= b[1] * a[2]
RLt(a, b) == ~IsNaN(a) /\ ~IsNaN(b) /\ a[1] * b[2] < b[1] * a[2]

\* Generator::gen of the stored generator, at core index i (0-based): an entry
\* of the explicit sequence, or start + i * step of an equidistant one. An index
\* outside the generator has no value.
CoreGen(k, i) ==
    IF i < 0 \/ i >= k.len THEN NaN
    ELSE IF k.gen = "Sorted" THEN Rat(k.seq[i + 1], 1)
    ELSE Rat(k.start * k.den + i * k.num, k.den)

\* The core index the clamped adaptor reads for logical index i: the first
\* core knot for the leading copies, the last for the trailing ones.
BorderBufferIndex(k, i) ==
    IF i < k.border THEN 0
    ELSE IF i >= k.len + k.border THEN k.len - 1
    ELSE i - k.border

\* Generator::gen of a knot generator at logical index i (0-based).
KnotsGen(k, i) ==
    CASE k.type = "BorderBuffer" -> CoreGen(k, BorderBufferIndex(k, i))
      [] k.type = "BorderDeletion" -> CoreGen(k, i + 1)
      [] OTHER -> CoreGen(k, i)

\* The logical knot sequence, entry by entry.
LogicalKnots(oc, k) == [i \in 1..KnotsLen(oc, k) |-> KnotsGen(k, i - 1)]

\* ------------------------------------------------------------- workspaces
\* S = Unknown
UnknownSpace == [type |-> "Unknown", len |-> 0]

\* ConstSpace::<T, N>::new(); Space::len is N.
ConstSpaceNew(N) == [type |-> "ConstSpace", len |-> N]

\* DynSpace::new(len); Space::len is len.
DynSpaceNew(len) == [type |-> "DynSpace", len |-> len]

\* A provider of the caller implementing Space, of the given len().
CustomSpace(len) == [type |-> "Custom", len |-> len]

\* ------------------------------------------------------------ the director
\* BSplineDirector::new(): every field Unknown, mode Open. The field elements
\* is kept as its length and, for Weights<G>, the weights of its entries.
DirectorNew ==
    [mode |-> "Open", weight |-> "Unknown", elements |-> 0, weights |-> <<>>,
     knots |-> UnknownKnots, space |-> UnknownSpace]

\* Result<BSplineDirector, E>, and the panic of the call that should return it.
Ok(dir) == [tag |-> "Ok", dir |-> dir, err |-> NoError]
Err(e) == [tag |-> "Err", dir |-> DirectorNew, err |-> e]
Panic == [tag |-> "Panic", dir |-> DirectorNew, err |-> NoError]

\* A director whose usize fields were all computed without a panic, else Panic.
OkUnless(words, dir) == IF \E i \in DOMAIN words : words[i] = Overflow THEN Panic ELSE Ok(dir)

\* BSplineDirector::open / clamped / legacy
DirectorOpen(dir) == [dir EXCEPT !.mode = "Open"]
DirectorClamped(dir) == [dir EXCEPT !.mode = "Clamped"]
DirectorLegacy(dir) == [dir EXCEPT !.mode = "Legacy"]

\* elements() returning a director of the default mode.
DirectorElementsOfOpen(dir, n) ==
    [dir EXCEPT !.elements = n, !.weights = <<>>, !.weight = "WithoutWeight", !.mode = "Open"]

\* BSplineDirector::elements(elements): n is elements.len().
DirectorElements(dir, n) ==
    [dir EXCEPT !.elements = n, !.weights = <<>>, !.weight = "WithoutWeight"]

\* elements_with_weights() storing the elements with weights of Zero, whatever
\* weights it was given.
DirectorElementsWithWeightsZeroed(dir, gen) ==
    [dir EXCEPT !.elements = Len(gen), !.weights = [i \in DOMAIN gen |-> 0],
                !.weight = "WithWeight"]

\* BSplineDirector::elements_with_weights(gen): Weights::new(gen) wraps the
\* generator as it is; gen is given by the weights of its entries.
DirectorElementsWithWeights(dir, gen) ==
    [dir EXCEPT !.elements = Len(gen), !.weights = gen, !.weight = "WithWeight"]

\* knots() storing the sequence without the sortedness guard.
DirectorKnotsOpenUnguarded(dir, knots) ==
    Ok([dir EXCEPT !.knots = [UnknownKnots EXCEPT !.type = "Sorted", !.gen = "Sorted",
                                                  !.seq = knots, !.len = Len(knots)]])

\* BSplineDirector<.., Open>::knots(knots)
DirectorKnotsOpen(dir, knots) ==
    LET sorted == SortedNew(knots)
    IN  IF ~sorted.ok THEN Err(sorted.err)
        ELSE Ok([dir EXCEPT !.knots = sorted.knots])

\* knots() duplicating the border knots degree times instead of degree - 1 times.
DirectorKnotsClampedDegreeCopies(dir, knots) ==
    IF dir.elements < Len(knots)
    THEN Err(InvalidDegree(dir.elements - Len(knots) + 1))
    ELSE LET duplicate == dir.elements - Len(knots) + 1
             sorted == SortedNew(knots)
         IN  IF ~sorted.ok THEN Err(IntoBSplineError(sorted.err))
             ELSE Ok([dir EXCEPT !.knots = BorderBufferNew(sorted.knots, duplicate)])

\* BSplineDirector<.., Clamped>::knots(knots)
DirectorKnotsClamped(dir, knots) ==
    IF dir.elements < Len(knots)
    THEN Err(InvalidDegree(dir.elements - Len(knots) + 1))
    ELSE LET duplicate == dir.elements - Len(knots)
             sorted == SortedNew(knots)
         IN  IF ~sorted.ok THEN Err(IntoBSplineError(sorted.err))
             ELSE Ok([dir EXCEPT !.knots = BorderBufferNew(sorted.knots, duplicate)])

\* knots() of legacy mode keeping the outer knots, as open mode does.
DirectorKnotsLegacyKeepingBorder(dir, knots) ==
    LET sorted == SortedNew(knots)
    IN  IF ~sorted.ok THEN Err(IntoBSplineError(sorted.err))
        ELSE Ok([dir EXCEPT !.knots = sorted.knots])

\* BSplineDirector<.., Legacy>::knots(knots)
DirectorKnotsLegacy(dir, knots) ==
    LET sorted == SortedNew(knots)
    IN  IF ~sorted.ok THEN Err(IntoBSplineError(sorted.err))
        ELSE LET deleted == BorderDeletionNew(sorted.knots)
             IN  IF ~deleted.ok THEN Err(deleted.err)
                 ELSE Ok([dir EXCEPT !.knots = deleted.knots])

\* The knots method of the director's mode.
DirectorKnots(dir, knots) ==
    CASE dir.mode = "Open" -> DirectorKnotsOpen(dir, knots)
      [] dir.mode = "Clamped" -> DirectorKnotsClamped(dir, knots)
      [] dir.mode = "Legacy" -> DirectorKnotsLegacy(dir, knots)

\* BSplineDirector::equidistant()
DirectorEquidistant(dir) == [dir EXCEPT !.knots = TypeKnots]

\* BSplineDirector<Type<R>, .., Open>::degree(degree)
DirectorDegreeOpen(oc, dir, degree) ==
    LET len == UAdd(oc, USub(oc, dir.elements, 1), degree)
    IN  OkUnless(<<len>>, [dir EXCEPT !.knots = UnknownDomain(len, degree)])

\* BSplineDirector<Type<R>, .., Open>::quantity(quantity)
DirectorQuantityOpen(oc, dir, quantity) ==
    LET deg == UAdd(oc, USub(oc, quantity, dir.elements), 1)
    IN  OkUnless(<<deg>>, [dir EXCEPT !.knots = UnknownDomain(quantity, deg)])

\* Clamped degree() taking the knot count to be elements.len() - degree.
DirectorDegreeClampedWithoutOne(oc, dir, degree) ==
    LET len == USub(oc, dir.elements, degree)
    IN  OkUnless(<<len>>, [dir EXCEPT !.knots = UnknownDomain(len, degree)])

\* BSplineDirector<Type<R>, .., Clamped>::degree(degree)
DirectorDegreeClamped(oc, dir, degree) ==
    LET len == UAdd(oc, USub(oc, dir.elements, degree), 1)
    IN  OkUnless(<<len>>, [dir EXCEPT !.knots = UnknownDomain(len, degree)])

\* Clamped quantity() taking the degree to be elements.len() - quantity.
DirectorQuantityClampedWithoutOne(oc, dir, quantity) ==
    LET deg == USub(oc, dir.elements, quantity)
    IN  OkUnless(<<deg>>, [dir EXCEPT !.knots = UnknownDomain(quantity, deg)])

\* BSplineDirector<Type<R>, .., Clamped>::quantity(quantity)
DirectorQuantityClamped(oc, dir, quantity) ==
    LET deg == UAdd(oc, USub(oc, dir.elements, quantity), 1)
    IN  OkUnless(<<deg>>, [dir EXCEPT !.knots = UnknownDomain(quantity, deg)])

\* degree(degree) of the director's mode (Legacy has no equidistant methods).
DirectorDegree(oc, dir, degree) ==
    IF dir.mode = "Open" THEN DirectorDegreeOpen(oc, dir, degree)
    ELSE DirectorDegreeClamped(oc, dir, degree)

\* quantity(quantity) of the director's mode.
DirectorQuantity(oc, dir, quantity) ==
    IF dir.mode = "Open" THEN DirectorQuantityOpen(oc, dir, quantity)
    ELSE DirectorQuantityClamped(oc, dir, quantity)

\* BSplineDirector<UnknownDomain<R>, .., Open>::domain / normalized / distance:
\* equi is the Equidistant generator built from self.knots.len().
DirectorDomainOpen(dir, equi) == Ok([dir EXCEPT !.knots = equi])

\* The clamped domain methods wrapping the generator in a BorderBuffer of
\* self.knots.deg() copies.
DirectorDomainClampedDegreeCopies(oc, dir, equi) ==
    Ok([dir EXCEPT !.knots = BorderBufferNew(equi, dir.knots.deg)])

\* BSplineDirector<UnknownDomain<R>, .., Clamped>::domain / normalized / distance:
\* the generator is wrapped in a BorderBuffer of self.knots.deg() - 1 copies.
DirectorDomainClamped(oc, dir, equi) ==
    LET duplicate == USub(oc, dir.knots.deg, 1)
    IN  OkUnless(<<duplicate>>, [dir EXCEPT !.knots = BorderBufferNew(equi, duplicate)])

\* domain(start, end)
DirectorDomain(oc, dir, start, end) ==
    IF dir.mode = "Open" THEN DirectorDomainOpen(dir, EquidistantNew(dir.knots.len, start, end))
    ELSE DirectorDomainClamped(oc, dir, EquidistantNew(dir.knots.len, start, end))

\* normalized()
DirectorNormalized(oc, dir) ==
    IF dir.mode = "Open" THEN DirectorDomainOpen(dir, EquidistantNormalized(dir.knots.len))
    ELSE DirectorDomainClamped(oc, dir, EquidistantNormalized(dir.knots.len))

\* distance(start, step)
DirectorDistance(oc, dir, start, step) ==
    IF dir.mode = "Open" THEN DirectorDomainOpen(dir, EquidistantStep(dir.knots.len, start, step))
    ELSE DirectorDomainClamped(oc, dir, EquidistantStep(dir.knots.len, start, step))

\* BSplineDirector::dynamic()
DirectorDynamic(oc, dir) ==
    LET len == UAdd(oc, USub(oc, KnotsLen(oc, dir.knots), dir.elements), 2)
    IN  OkUnless(<<len>>, [dir EXCEPT !.space = DynSpaceNew(len)])

\* constant() handing out a provider of one entry more than N.
DirectorConstantOneMore(dir, N) == [dir EXCEPT !.space = ConstSpaceNew(N + 1)]

\* BSplineDirector::constant::<N>()
DirectorConstant(dir, N) == [dir EXCEPT !.space = ConstSpaceNew(N)]

\* BSplineDirector::workspace(space)
DirectorWorkspace(dir, space) == [dir EXCEPT !.space = space]

\* ---------------------------------------------------------------- the curve
NoCurve == [elements |-> 0, weight |-> "Unknown", weights |-> <<>>, knots |-> UnknownKnots,
            space |-> UnknownSpace, degree |-> 0]

\* Result<BSpline, BSplineError> of a build, and the panic of the call.
Built(curve) == [tag |-> "Curve", curve |-> curve, err |-> NoError]
Failed(e) == [tag |-> "Err", curve |-> NoCurve, err |-> e]
Aborted == [tag |-> "Panic", curve |-> NoCurve, err |-> NoError]
NotBuilt == [tag |-> "None", curve |-> NoCurve, err |-> NoError]

\* BSpline::new(elements, knots, space): the terminal validation. The degree
\* is knots.len() - elements.len() + 1, the relation dynamic(), the equidistant
\* steps and the builder's tests all rest on; a curve needs elements, a degree
\* "bigger than 0 and less than the number of elements" (the doc of degree()),
\* sorted knots and a workspace of degree + 1 entries.
BSplineNew(oc, elements, knots, space) ==
    LET m == KnotsLen(oc, knots)
        degree == m - elements + 1
    IN  IF m = Overflow THEN Aborted
        ELSE IF elements = 0 THEN Failed(BSplineError("TooFewElements", elements))
        ELSE IF degree < 1 \/ degree >= elements THEN Failed(InvalidDegree(degree))
        ELSE IF ~KnotsSorted(knots) THEN Failed(BSplineError("NotSorted", 0))
        ELSE IF space.len < degree + 1 THEN Failed(BSplineError("TooSmallWorkspace", space.len))
        ELSE Built([elements |-> elements, weight |-> "WithoutWeight", weights |-> <<>>,
                    knots |-> knots, space |-> space, degree |-> degree])

\* Weighted::new(curve): the curve over the elements Weights<G>, projected back
\* from homogeneous form; gen is G, given by the weights of its entries.
WeightedNew(curve, gen) == [curve EXCEPT !.weight = "WithWeight", !.weights = gen]

\* build() assembling the curve without the terminal validation.
DirectorBuildUnchecked(oc, dir) ==
    Built([elements |-> dir.elements, weight |-> "WithoutWeight", weights |-> <<>>,
           knots |-> dir.knots, space |-> dir.space,
           degree |-> KnotsLen(oc, dir.knots) - dir.elements + 1])

\* BSplineDirector<K,E,S,WithoutWeight,M>::build()
DirectorBuildWithoutWeight(oc, dir) == BSplineNew(oc, dir.elements, dir.knots, dir.space)

\* The weighted build() refusing an element of weight zero.
DirectorBuildWithWeightNonZero(oc, dir) ==
    LET inner == BSplineNew(oc, dir.elements, dir.knots, dir.space)
    IN  IF \E i \in DOMAIN dir.weights : dir.weights[i] = 0 THEN Failed(InvalidDegree(0))
        ELSE IF inner.tag = "Curve" THEN Built(WeightedNew(inner.curve, dir.weights)) ELSE inner

\* BSplineDirector<K,Weights<G>,S,WithWeight,M>::build()
DirectorBuildWithWeight(oc, dir) ==
    LET inner == BSplineNew(oc, dir.elements, dir.knots, dir.space)
    IN  IF inner.tag = "Curve" THEN Built(WeightedNew(inner.curve, dir.weights)) ELSE inner

\* build() of the director's weight mode.
DirectorBuild(oc, dir) ==
    IF dir.weight = "WithWeight" THEN DirectorBuildWithWeight(oc, dir)
    ELSE DirectorBuildWithoutWeight(oc, dir)

\* --------------------------------------------------------------- evaluation
\* Number of parameters take() samples in the builder's tests.
Samples == 10

\* An element is kept as the affine combination of the control elements it is:
\* the sequence of its n coefficients. Control element j (0-based) is Unit(n, j).
Unit(n, j) == [i \in 1..n |-> IF i = j + 1 THEN Rat(1, 1) ELSE Rat(0, 1)]

\* Default::default() of an element: the workspace's initial entries.
Zero(n) == [i \in 1..n |-> Rat(0, 1)]

\* Homogeneous<E, W>: the pair (element, weight), kept as the n coefficients of
\* the element part followed by the weight. Control element j given with the
\* weight w lifts to (e * w, w).
Homogeneous(n, j, w) ==
    [i \in 1..(n + 1) |-> IF i = j + 1 \/ i = n + 1 THEN Rat(w, 1) ELSE Rat(0, 1)]

\* The number of scalars an entry of the curve's element generator holds.
Width(c) == IF c.weight = "WithWeight" THEN c.elements + 1 ELSE c.elements

\* Generator::gen of the curve's elements at index j (0-based): the element
\* itself, or for Weights<G> the element lifted with its weight.
ElementsGen(c, j) ==
    IF c.weight = "WithWeight" THEN Homogeneous(c.elements, j, c.weights[j + 1])
    ELSE Unit(c.elements, j)

\* Merge::merge(a, b, factor) = a * (1 - factor) + b * factor
Merge(a, b, factor) ==
    LET f == factor
        keep == RSub(Rat(1, 1), f)
    IN  [i \in DOMAIN a |-> RAdd(RMul(a[i], keep), RMul(b[i], f))]

\* A workspace whose entries are not the default value.
SpaceWorkspaceStale(space, n) == [i \in 1..space.len |-> Unit(n, 0)]

\* Space::workspace(): a new buffer of len() default entries.
SpaceWorkspace(space, n) == [i \in 1..space.len |-> Zero(n)]

\* The span of t: the largest s in degree..n-1 whose knot does not exceed t,
\* and degree when there is none (t is clamped to the domain).
SpanIndex(c, t) ==
    LET below == {s \in c.degree..(c.elements - 1) : RLe(KnotsGen(c.knots, s - 1), t)}
    IN  IF below = {} THEN c.degree ELSE CHOOSE s \in below : \A x \in below : x <= s

\* The blending factor of pass r at workspace slot i; 0 on a zero denominator.
Alpha(c, s, t, r, i) ==
    LET low == KnotsGen(c.knots, s - c.degree + i - 1)
        high == KnotsGen(c.knots, s + i - r)
        den == RSub(high, low)
    IN  IF den = Rat(0, 1) THEN Rat(0, 1) ELSE RDiv(RSub(t, low), den)

\* Pass r of De Boor's recurrence, slots i down to r.
RECURSIVE DeBoorPass(_, _, _, _, _, _)
DeBoorPass(ws, c, s, t, r, i) ==
    IF i < r THEN ws
    ELSE DeBoorPass([ws EXCEPT ![i + 1] = Merge(ws[i], ws[i + 1], Alpha(c, s, t, r, i))],
                    c, s, t, r, i - 1)

\* Passes r..degree.
RECURSIVE DeBoor(_, _, _, _, _)
DeBoor(ws, c, s, t, r) ==
    IF r > c.degree THEN ws
    ELSE DeBoor(DeBoorPass(ws, c, s, t, r, c.degree), c, s, t, r + 1)

\* Curve::domain()
CurveDomain(c) == <<KnotsGen(c.knots, c.degree - 1), KnotsGen(c.knots, c.elements - 1)>>

\* BSpline::gen(t): the elements s-degree..s are copied into a new workspace
\* and blended; a curve with no more elements than its degree has no span to
\* read them from (the value <<>>).
Evaluate(c, t) ==
    IF c.elements <= c.degree \/ c.space.len < c.degree + 1 THEN <<>>
    ELSE LET s == SpanIndex(c, t)
             fresh == SpaceWorkspace(c.space, Width(c))
             ws == [i \in DOMAIN fresh |->
                        IF i <= c.degree + 1 THEN ElementsGen(c, s - c.degree + i - 1)
                        ELSE fresh[i]]
         IN  DeBoor(ws, c, s, t, 1)[c.degree + 1]

\* Homogeneous::project: the element part divided by the weight; a weight of
\* zero leaves no finite value.
Project(h) == [i \in 1..(Len(h) - 1) |-> RDiv(h[i], h[Len(h)])]

\* Generator::gen of the built curve: BSpline::gen, and for Weighted<BSpline>
\* its projection.
CurveGen(c, t) ==
    LET value == Evaluate(c, t)
    IN  IF c.weight = "WithWeight" /\ value # <<>> THEN Project(value) ELSE value

\* Curve::take(Samples): the value at Samples evenly spaced parameters of the domain.
Take(c) ==
    LET dom == CurveDomain(c)
    IN  [j \in 1..Samples |->
            CurveGen(c, RAdd(dom[1], RMul(RSub(dom[2], dom[1]), Rat(j - 1, Samples - 1))))]

\* ------------------------------------------------------------- the builder
\* BSplineBuilder::new(): inner is Ok(BSplineDirector::new()).
BuilderNew == Ok(DirectorNew)

\* BSplineBuilder::open / clamped / legacy: inner.and_then(|d| Ok(d.open())) ...
BuilderOpen(inner) == IF inner.tag = "Ok" THEN Ok(DirectorOpen(inner.dir)) ELSE inner
BuilderClamped(inner) == IF inner.tag = "Ok" THEN Ok(DirectorClamped(inner.dir)) ELSE inner
BuilderLegacy(inner) == IF inner.tag = "Ok" THEN Ok(DirectorLegacy(inner.dir)) ELSE inner

\* BSplineBuilder::elements / elements_with_weights
BuilderElements(inner, n) ==
    IF inner.tag = "Ok" THEN Ok(DirectorElements(inner.dir, n)) ELSE inner
BuilderElementsWithWeights(inner, gen) ==
    IF inner.tag = "Ok" THEN Ok(DirectorElementsWithWeights(inner.dir, gen)) ELSE inner

\* BSplineBuilder<.., Open>::knots: the director's NotSorted is converted by
\* map_err(|err| err.into()).
BuilderKnotsOpen(inner, knots) ==
    IF inner.tag = "Ok"
    THEN LET r == DirectorKnotsOpen(inner.dir, knots)
         IN  IF r.tag = "Err" THEN Err(IntoBSplineError(r.err)) ELSE r
    ELSE inner

\* The clamped builder calling the knots method of the open director.
BuilderKnotsClampedAsOpen(inner, knots) ==
    IF inner.tag = "Ok"
    THEN LET r == DirectorKnotsOpen(inner.dir, knots)
         IN  IF r.tag = "Err" THEN Err(IntoBSplineError(r.err)) ELSE r
    ELSE inner

\* BSplineBuilder<.., Clamped>::knots
BuilderKnotsClamped(inner, knots) ==
    IF inner.tag = "Ok" THEN DirectorKnotsClamped(inner.dir, knots) ELSE inner

\* BSplineBuilder<.., Legacy>::knots
BuilderKnotsLegacy(inner, knots) ==
    IF inner.tag = "Ok" THEN DirectorKnotsLegacy(inner.dir, knots) ELSE inner

\* The knots method of the builder's mode, which is part of its type.
BuilderKnots(mode, inner, knots) ==
    CASE mode = "Open" -> BuilderKnotsOpen(inner, knots)
      [] mode = "Clamped" -> BuilderKnotsClamped(inner, knots)
      [] mode = "Legacy" -> BuilderKnotsLegacy(inner, knots)

\* BSplineBuilder::equidistant
BuilderEquidistant(inner) ==
    IF inner.tag = "Ok" THEN Ok(DirectorEquidistant(inner.dir)) ELSE inner

\* BSplineBuilder::degree / quantity (Open and Clamped)
BuilderDegree(oc, inner, degree) ==
    IF inner.tag = "Ok" THEN DirectorDegree(oc, inner.dir, degree) ELSE inner
BuilderQuantity(oc, inner, quantity) ==
    IF inner.tag = "Ok" THEN DirectorQuantity(oc, inner.dir, quantity) ELSE inner

\* BSplineBuilder::domain / normalized / distance (Open and Clamped)
BuilderDomain(oc, inner, start, end) ==
    IF inner.tag = "Ok" THEN DirectorDomain(oc, inner.dir, start, end) ELSE inner
BuilderNormalized(oc, inner) ==
    IF inner.tag = "Ok" THEN DirectorNormalized(oc, inner.dir) ELSE inner
BuilderDistance(oc, inner, start, step) ==
    IF inner.tag = "Ok" THEN DirectorDistance(oc, inner.dir, start, step) ELSE inner

\* constant() configuring the director whatever inner holds.
BuilderConstantAlways(inner, N) == Ok(DirectorConstant(inner.dir, N))

\* BSplineBuilder::dynamic / constant / workspace
BuilderDynamic(oc, inner) ==
    IF inner.tag = "Ok" THEN DirectorDynamic(oc, inner.dir) ELSE inner
BuilderConstant(inner, N) ==
    IF inner.tag = "Ok" THEN Ok(DirectorConstant(inner.dir, N)) ELSE inner
BuilderWorkspace(inner, space) ==
    IF inner.tag = "Ok" THEN Ok(DirectorWorkspace(inner.dir, space)) ELSE inner

\* build() of the deferred builder assembling the curve without validation.
BuilderBuildUnchecked(oc, inner) ==
    CASE inner.tag = "Err" -> Failed(inner.err)
      [] inner.tag = "Ok" -> DirectorBuildUnchecked(oc, inner.dir)
      [] OTHER -> Aborted

\* BSplineBuilder::build(), unweighted and weighted: the stored error, or the
\* director's build.
BuilderBuild(oc, inner) ==
    CASE inner.tag = "Err" -> Failed(inner.err)
      [] inner.tag = "Ok" -> DirectorBuild(oc, inner.dir)
      [] OTHER -> Aborted

\* ------------------------------------------------------------------- state
VARIABLES
    overflowChecks, \* the build profile: usize overflow panics (TRUE) or wraps
    stage,          \* the type-state both builders are in
    mode,           \* the mode parameter M of both builders' type
    director,       \* the eager chain: the director, or the error it returned
    builder,        \* the deferred chain: the field inner of the BSplineBuilder
    directorBuilt,  \* what the eager chain's build() returned
    builderBuilt,   \* what the deferred chain's build() returned
    surfaced,       \* the call at which the eager chain returned its error
    last,           \* the latest call of the chain
    nArg,           \* elements.len() of the elements supplied
    weightsArg,     \* the weights of the elements supplied with weights
    knotsArg,       \* the explicit knots supplied
    arg,            \* the usize argument of the latest call that takes one
    heap,           \* the workspace buffers in memory, by address
    call,           \* each thread's call of gen(t) on the built curve
    returned        \* per parameter, the value the first finished call returned

vars == <<overflowChecks, stage, mode, director, builder, directorBuilt, builderBuilt,
          surfaced, last, nArg, weightsArg, knotsArg, arg, heap, call, returned>>

\* The fields of the builder chains, and the state of the calls of gen(t).
chainVars == <<overflowChecks, stage, mode, director, builder, directorBuilt, builderBuilt,
               surfaced, last, nArg, weightsArg, knotsArg, arg>>
evalVars == <<heap, call, returned>>

\* The threads that share the built curve.
Threads == {"a", "b"}

\* The addresses a workspace buffer can have: one per thread suffices, as a
\* thread holds at most one.
BufferIds == 1..Cardinality(Threads)

\* Memory that holds no buffer.
Freed == [live |-> FALSE, data |-> <<>>]

\* A thread that is in no call.
Idle == [pc |-> "idle", t |-> "none", ref |-> 0, s |-> 0, r |-> 0, i |-> 0, value |-> <<>>]

\* The parameters the threads evaluate at: the middle and the end of the domain.
Params == {"mid", "max"}

\* No call on a curve that is not built yet.
NoCalls ==
    /\ heap = [id \in BufferIds |-> Freed]
    /\ call = [th \in Threads |-> Idle]
    /\ returned = [p \in Params |-> <<>>]

\* The arguments the chains draw from.
KnotSeqs == UNION {[1..l -> 0..MaxValue] : l \in 0..MaxKnots}
Values == 0..MaxValue

\* The end of the domain in the builder's test of weighted elements.
DomainEnd == 5

\* The bounds and steps domain() and distance() are given.
DomainValues == Values \cup {DomainEnd}
Args == 0..MaxArg

\* The weights elements_with_weights is given for n elements: every element
\* with the weight 1, or the weights 1, 2, .., MaxWeight, 0 in rotation (for
\* three elements 1, 2, 0, the weights of the builder's test).
WeightSeqs(n) ==
    {[i \in 1..n |-> 1], [i \in 1..n |-> i % (MaxWeight + 1)]}

Init ==
    /\ overflowChecks \in BOOLEAN
    /\ stage = "New"
    /\ mode = "Open"
    /\ director = Ok(DirectorNew)
    /\ builder = BuilderNew
    /\ directorBuilt = NotBuilt
    /\ builderBuilt = NotBuilt
    /\ surfaced = "None"
    /\ last = "new"
    /\ nArg = 0
    /\ weightsArg = <<>>
    /\ knotsArg = <<>>
    /\ arg = 0
    /\ NoCalls

\* One call of the chain, made on both builders: the eager chain stops at its
\* first error (the caller's `?`), so the call is made on the director only
\* while the chain is Ok; a panic ends the program.
Call(name, next, eager, deferred) ==
    /\ director' = IF director.tag = "Ok" THEN eager ELSE director
    /\ builder' = deferred
    /\ surfaced' = IF director.tag = "Ok" /\ eager.tag = "Err" THEN name ELSE surfaced
    /\ stage' = IF director'.tag = "Panic" /\ builder'.tag = "Panic" THEN "Aborted" ELSE next
    /\ last' = name
    /\ UNCHANGED <<overflowChecks, directorBuilt, builderBuilt>>
    /\ UNCHANGED evalVars

Open ==
    /\ stage = "New"
    /\ mode' = "Open"
    /\ Call("open", "New", Ok(DirectorOpen(director.dir)), BuilderOpen(builder))
    /\ UNCHANGED <<nArg, weightsArg, knotsArg, arg>>

Clamped ==
    /\ stage = "New"
    /\ mode' = "Clamped"
    /\ Call("clamped", "New", Ok(DirectorClamped(director.dir)), BuilderClamped(builder))
    /\ UNCHANGED <<nArg, weightsArg, knotsArg, arg>>

Legacy ==
    /\ stage = "New"
    /\ mode' = "Legacy"
    /\ Call("legacy", "New", Ok(DirectorLegacy(director.dir)), BuilderLegacy(builder))
    /\ UNCHANGED <<nArg, weightsArg, knotsArg, arg>>

Elements ==
    /\ stage = "New"
    /\ \E n \in 0..MaxElements :
        /\ nArg' = n
        /\ Call("elements", "Elements", Ok(DirectorElements(director.dir, n)),
                BuilderElements(builder, n))
    /\ UNCHANGED <<mode, weightsArg, knotsArg, arg>>

ElementsWithWeights ==
    /\ stage = "New"
    /\ \E n \in 0..MaxElements : \E gen \in WeightSeqs(n) :
        /\ nArg' = n
        /\ weightsArg' = gen
        /\ Call("elements_with_weights", "Elements",
                Ok(DirectorElementsWithWeights(director.dir, gen)),
                BuilderElementsWithWeights(builder, gen))
    /\ UNCHANGED <<mode, knotsArg, arg>>

Knots ==
    /\ stage = "Elements"
    /\ \E knots \in KnotSeqs :
        /\ knotsArg' = knots
        /\ Call("knots", "Knots", DirectorKnots(director.dir, knots),
                BuilderKnots(mode, builder, knots))
    /\ UNCHANGED <<mode, nArg, weightsArg, arg>>

\* equidistant() asks for no elements (its impl leaves E free), so it is also
\* accepted on a builder without elements; the type it then returns has no
\* method at all.
Equidistant ==
    /\ stage \in {"New", "Elements"}
    /\ Call("equidistant", IF stage = "New" THEN "TypeWithoutElements" ELSE "Type",
            Ok(DirectorEquidistant(director.dir)), BuilderEquidistant(builder))
    /\ UNCHANGED <<mode, nArg, weightsArg, knotsArg, arg>>

Degree ==
    /\ stage = "Type"
    /\ mode \in {"Open", "Clamped"}
    /\ \E degree \in Args :
        /\ arg' = degree
        /\ Call("degree", "UnknownDomain", DirectorDegree(overflowChecks, director.dir, degree),
             BuilderDegree(overflowChecks, builder, degree))
    /\ UNCHANGED <<mode, nArg, weightsArg, knotsArg>>

Quantity ==
    /\ stage = "Type"
    /\ mode \in {"Open", "Clamped"}
    /\ \E quantity \in Args :
        /\ arg' = quantity
        /\ Call("quantity", "UnknownDomain", DirectorQuantity(overflowChecks, director.dir, quantity),
             BuilderQuantity(overflowChecks, builder, quantity))
    /\ UNCHANGED <<mode, nArg, weightsArg, knotsArg>>

Domain ==
    /\ stage = "UnknownDomain"
    /\ \E start \in DomainValues, end \in DomainValues :
        Call("domain", "Knots", DirectorDomain(overflowChecks, director.dir, start, end),
             BuilderDomain(overflowChecks, builder, start, end))
    /\ UNCHANGED <<mode, nArg, weightsArg, knotsArg, arg>>

Normalized ==
    /\ stage = "UnknownDomain"
    /\ Call("normalized", "Knots", DirectorNormalized(overflowChecks, director.dir),
            BuilderNormalized(overflowChecks, builder))
    /\ UNCHANGED <<mode, nArg, weightsArg, knotsArg, arg>>

Distance ==
    /\ stage = "UnknownDomain"
    /\ \E start \in DomainValues, step \in DomainValues :
        Call("distance", "Knots", DirectorDistance(overflowChecks, director.dir, start, step),
             BuilderDistance(overflowChecks, builder, start, step))
    /\ UNCHANGED <<mode, nArg, weightsArg, knotsArg, arg>>

Dynamic ==
    /\ stage = "Knots"
    /\ Call("dynamic", "Space", DirectorDynamic(overflowChecks, director.dir),
            BuilderDynamic(overflowChecks, builder))
    /\ UNCHANGED <<mode, nArg, weightsArg, knotsArg, arg>>

Constant ==
    /\ stage = "Knots"
    /\ \E N \in Args :
        /\ arg' = N
        /\ Call("constant", "Space", Ok(DirectorConstant(director.dir, N)),
             BuilderConstant(builder, N))
    /\ UNCHANGED <<mode, nArg, weightsArg, knotsArg>>

Workspace ==
    /\ stage = "Knots"
    /\ \E len \in Args :
        /\ arg' = len
        /\ Call("workspace", "Space", Ok(DirectorWorkspace(director.dir, CustomSpace(len))),
             BuilderWorkspace(builder, CustomSpace(len)))
    /\ UNCHANGED <<mode, nArg, weightsArg, knotsArg>>

\* build() on both chains. The eager chain that stopped at an error has that
\* error as its outcome.
Build ==
    /\ stage = "Space"
    /\ directorBuilt' = CASE director.tag = "Ok" -> DirectorBuild(overflowChecks, director.dir)
                          [] director.tag = "Err" -> Failed(director.err)
                          [] OTHER -> Aborted
    /\ builderBuilt' = BuilderBuild(overflowChecks, builder)
    /\ stage' = "Done"
    /\ last' = "build"
    /\ UNCHANGED <<overflowChecks, mode, director, builder, surfaced, nArg, weightsArg,
                   knotsArg, arg>>
    /\ UNCHANGED evalVars

Next ==
    \/ Open \/ Clamped \/ Legacy
    \/ Elements \/ ElementsWithWeights
    \/ Knots \/ Equidistant
    \/ Degree \/ Quantity
    \/ Domain \/ Normalized \/ Distance
    \/ Dynamic \/ Constant \/ Workspace
    \/ Build

Spec == Init /\ [][Next]_vars

\* ------------------------------------------------- concurrent evaluation
\* A builder chain with explicit knots up to its workspace call: the mode m,
\* the elements call of the weight mode given, knots(knots) and the workspace
\* call that yields the kind of provider given.
ExplicitInner(oc, m, weight, gen, n, knots, space) ==
    LET selected == CASE m = "Open" -> BuilderOpen(BuilderNew)
                      [] m = "Clamped" -> BuilderClamped(BuilderNew)
                      [] m = "Legacy" -> BuilderLegacy(BuilderNew)
        withElements == IF weight = "WithWeight" THEN BuilderElementsWithWeights(selected, gen)
                        ELSE BuilderElements(selected, n)
        withKnots == BuilderKnots(m, withElements, knots)
    IN  CASE space.type = "DynSpace" -> BuilderDynamic(oc, withKnots)
          [] space.type = "ConstSpace" -> BuilderConstant(withKnots, space.len)
          [] OTHER -> BuilderWorkspace(withKnots, space)

\* k copies of v.
Repeat(v, k) == [i \in 1..k |-> v]

\* The open-mode knots equivalent to the clamped core K for n elements: the
\* first and the last knot each n - |K| more times.
OpenKnotsOf(K, n) == Repeat(K[1], n - Len(K)) \o K \o Repeat(K[Len(K)], n - Len(K))

\* The legacy-mode knots: one further copy of the first and of the last knot.
LegacyKnotsOf(K, n) == <<K[1]>> \o OpenKnotsOf(K, n) \o <<K[Len(K)]>>

\* The strictly increasing core knots a clamped chain for n elements is given.
CoreSeqs(n) ==
    {K \in KnotSeqs : Len(K) >= 2 /\ Len(K) <= n /\ \A i \in 1..(Len(K) - 1) : K[i] < K[i + 1]}

\* The knots the chain of mode m is given for the core K: as in the builder's
\* test of the modes, the same curve in each mode.
ModeKnotsOf(m, K, n) ==
    CASE m = "Clamped" -> K
      [] m = "Legacy" -> LegacyKnotsOf(K, n)
      [] OTHER -> OpenKnotsOf(K, n)

\* The state after build() has returned a curve: a chain of any mode, without
\* weights or with the weights 1, 2, .., MaxWeight, 0 in rotation, with
\* explicit knots and a DynSpace or a ConstSpace, as in the builder's test of
\* the modes; no thread has called the curve yet.
EvalInit ==
    \E m \in {"Open", "Clamped", "Legacy"}, n \in 2..MaxElements, N \in Args \cup {Overflow} :
        \E K \in CoreSeqs(n), gen \in {<<>>, [i \in 1..n |-> i % (MaxWeight + 1)]} :
            LET space == IF N = Overflow THEN DynSpaceNew(0) ELSE ConstSpaceNew(N)
                weight == IF gen = <<>> THEN "WithoutWeight" ELSE "WithWeight"
                knots == ModeKnotsOf(m, K, n)
                inner == ExplicitInner(TRUE, m, weight, gen, n, knots, space)
                built == BuilderBuild(TRUE, inner)
            IN  /\ built.tag = "Curve"
                /\ overflowChecks = TRUE
                /\ stage = "Done"
                /\ mode = m
                /\ director = inner
                /\ builder = inner
                /\ directorBuilt = built
                /\ builderBuilt = built
                /\ surfaced = "None"
                /\ last = "build"
                /\ nArg = n
                /\ weightsArg = gen
                /\ knotsArg = knots
                /\ arg = IF N = Overflow THEN 0 ELSE N
                /\ NoCalls

\* The parameter a thread passes to gen.
EvalParam(c, p) ==
    LET dom == CurveDomain(c)
    IN  CASE p = "max" -> dom[2]
          [] OTHER -> RMul(RAdd(dom[1], dom[2]), Rat(1, 2))

\* A workspace handed out that keeps the buffer it handed out before.
SpaceHandOutRetained(space, mem, n) ==
    [id |-> 1,
     mem |-> IF mem[1].live THEN mem ELSE [mem EXCEPT ![1] = [live |-> TRUE, data |-> SpaceWorkspace(space, n)]]]

\* Space::workspace() returns its buffer by value: an array or a Vec of its
\* own, at an address no live buffer has.
SpaceHandOut(space, mem, n) ==
    LET id == CHOOSE x \in BufferIds : ~mem[x].live /\ \A y \in BufferIds : ~mem[y].live => x <= y
    IN  [id |-> id, mem |-> [mem EXCEPT ![id] = [live |-> TRUE, data |-> SpaceWorkspace(space, n)]]]

\* The slot De Boor's recurrence blends after slot i of pass r: the next lower
\* slot of the pass, or the top slot of the next pass.
NextSlot(c, r, i) == IF i > r THEN <<r, i - 1>> ELSE <<r + 1, c.degree>>

\* BSpline::gen(t) begins: the thread takes a workspace from the curve's space.
Gen(th) ==
    /\ stage = "Done" /\ builderBuilt.tag = "Curve"
    /\ call[th].pc \in {"idle", "done"}
    /\ \E p \in Params :
        LET c == builderBuilt.curve
            out == SpaceHandOut(c.space, heap, Width(c))
        IN  /\ heap' = out.mem
            /\ call' = [call EXCEPT ![th] = [Idle EXCEPT !.pc = "workspace", !.t = p, !.ref = out.id]]
    /\ UNCHANGED returned
    /\ UNCHANGED chainVars

\* The span of t is found and its elements s-degree..s are copied into the
\* first degree + 1 slots of the workspace.
Load(th) ==
    /\ call[th].pc = "workspace"
    /\ LET c == builderBuilt.curve
           s == SpanIndex(c, EvalParam(c, call[th].t))
           ws == heap[call[th].ref].data
       IN  /\ heap' = [heap EXCEPT ![call[th].ref].data =
                          [i \in DOMAIN ws |-> IF i <= c.degree + 1
                                                THEN ElementsGen(c, s - c.degree + i - 1)
                                                ELSE ws[i]]]
           /\ call' = [call EXCEPT ![th].pc = "blend", ![th].s = s, ![th].r = 1,
                                    ![th].i = c.degree]
    /\ UNCHANGED returned
    /\ UNCHANGED chainVars

\* One slot of De Boor's recurrence: slot i of pass r is blended with its
\* lower neighbour, in the thread's workspace.
Blend(th) ==
    /\ call[th].pc = "blend"
    /\ call[th].r <= builderBuilt.curve.degree
    /\ LET c == builderBuilt.curve
           me == call[th]
           ws == heap[me.ref].data
           next == NextSlot(c, me.r, me.i)
       IN  /\ heap' = [heap EXCEPT ![me.ref].data =
                          [ws EXCEPT ![me.i + 1] =
                              Merge(ws[me.i], ws[me.i + 1],
                                    Alpha(c, me.s, EvalParam(c, me.t), me.r, me.i))]]
           /\ call' = [call EXCEPT ![th].r = next[1], ![th].i = next[2]]
    /\ UNCHANGED returned
    /\ UNCHANGED chainVars

\* gen returns slot degree of the workspace, projected for a weighted curve;
\* the workspace is dropped.
Return(th) ==
    /\ call[th].pc = "blend"
    /\ call[th].r > builderBuilt.curve.degree
    /\ LET c == builderBuilt.curve
           me == call[th]
           top == heap[me.ref].data[c.degree + 1]
           value == IF c.weight = "WithWeight" THEN Project(top) ELSE top
       IN  /\ call' = [call EXCEPT ![th] = [Idle EXCEPT !.pc = "done", !.t = me.t, !.value = value]]
           /\ heap' = [heap EXCEPT ![me.ref] = Freed]
           /\ returned' = IF returned[me.t] = <<>> THEN [returned EXCEPT ![me.t] = value]
                           ELSE returned
    /\ UNCHANGED chainVars

EvalNext ==
    \E th \in Threads : Gen(th) \/ Load(th) \/ Blend(th) \/ Return(th)

EvalSpec == EvalInit /\ [][EvalNext]_vars

\* ================================================================== claims

\* The explicit knots supplied hold an index i with knot[i] > knot[i+1].
Unsorted(knots) == FirstDescent(knots, 0) < Len(knots)

\* C1: the eager and the deferred builder agree after every call and at
\* build(): the deferred chain holds a director exactly while the eager chain
\* has succeeded, and it is the same director; its build() returns a curve
\* exactly when every eager step and the eager build() succeeded, the same
\* curve, and otherwise an error of the kind the eager chain surfaced.
EagerDeferredAgree ==
    /\ builder.tag = director.tag
    /\ builder.tag = "Ok" => builder.dir = director.dir
    /\ builder.tag = "Err" => builder.err.kind = director.err.kind
    /\ stage = "Done" =>
        /\ builderBuilt.tag = directorBuilt.tag
        /\ builderBuilt.tag = "Curve" <=> (director.tag = "Ok" /\ directorBuilt.tag = "Curve")
        /\ builderBuilt.curve = directorBuilt.curve
        /\ builderBuilt.err.kind = directorBuilt.err.kind
        /\ surfaced # "None" => builderBuilt.err.kind = director.err.kind

\* C1 witness: an open chain whose knots() returned NotSorted on the eager
\* side has been built on the deferred side.
EagerDeferredWitness ==
    /\ stage = "Done"
    /\ mode = "Open"
    /\ surfaced = "knots"
    /\ director.err.enum = "NotSorted"
    /\ builderBuilt.tag = "Err"
    /\ builderBuilt.err.enum = "BSplineError"

\* C2: once the deferred builder holds an error, every later call leaves
\* inner as it is (the call's own logic, which could panic, is not run), and
\* build() returns exactly that error and no curve.
FirstErrorKept ==
    [][builder.tag = "Err" =>
        /\ builder' = builder
        /\ stage' # "Aborted"
        /\ stage' = "Done" => builderBuilt' = Failed(builder.err)]_vars

\* C2 witness: a workspace call was made on a deferred builder holding the
\* error of knots(), and build() returned it.
FirstErrorKeptWitness ==
    /\ stage = "Done"
    /\ builder.tag = "Err"
    /\ builder.err.kind = "TooFewElements"
    /\ surfaced = "knots"
    /\ builderBuilt = Failed(builder.err)

\* The global invariants of a curve.
CurveInvariants(oc, c) ==
    /\ c.degree >= 1
    /\ c.degree = KnotsLen(oc, c.knots) - c.elements + 1
    /\ KnotsSorted(c.knots)
    /\ c.space.len >= c.degree + 1
    /\ c.elements >= 1
    /\ c.degree < c.elements

\* C3: build() of either builder returns a curve that satisfies the global
\* invariants, or an error of a listed kind and no curve.
BuildValidates ==
    stage = "Done" =>
        \A b \in {directorBuilt, builderBuilt} :
            \/ b.tag = "Curve" /\ b.err = NoError /\ CurveInvariants(overflowChecks, b.curve)
            \/ b.tag = "Err" /\ b.err.kind \in ErrorKinds /\ b.curve = NoCurve

\* C3 witness: a clamped weighted chain with equidistant knots has built a curve.
BuildValidatesWitness ==
    /\ stage = "Done"
    /\ mode = "Clamped"
    /\ builderBuilt.tag = "Curve"
    /\ builderBuilt.curve.weight = "WithWeight"
    /\ builderBuilt.curve.knots.gen = "Equidistant"
    /\ builderBuilt.curve.space.type = "DynSpace"

\* C4 as stated: in every mode, knots() given an unsorted sequence fails with
\* NotSorted whatever the number of knots and elements.
UnsortedAlwaysNotSorted ==
    (last = "knots" /\ Unsorted(knotsArg)) =>
        /\ director.tag = "Err" /\ director.err.kind = "NotSorted"
        /\ builder.tag = "Err" /\ builder.err.kind = "NotSorted"

\* C4 as amended: knots() given an unsorted sequence fails with NotSorted, at
\* the first descent, in open and legacy mode and in clamped mode when there
\* are no more knots than elements; in clamped mode with more knots than
\* elements it fails with InvalidDegree.
UnsortedRejected ==
    (last = "knots" /\ Unsorted(knotsArg)) =>
        /\ director.tag = "Err"
        /\ builder.tag = "Err"
        /\ IF mode = "Clamped" /\ Len(knotsArg) > nArg
           THEN director.err.kind = "InvalidDegree" /\ builder.err.kind = "InvalidDegree"
           ELSE /\ director.err.kind = "NotSorted" /\ builder.err.kind = "NotSorted"
                /\ director.err.value = FirstDescent(knotsArg, 0)
                /\ builder.err.value = FirstDescent(knotsArg, 0)

\* C4 witness: unsorted knots, more of them than elements, were rejected with
\* NotSorted in legacy mode.
UnsortedRejectedWitness ==
    /\ last = "knots"
    /\ mode = "Legacy"
    /\ Unsorted(knotsArg)
    /\ Len(knotsArg) > nArg
    /\ builder.err.kind = "NotSorted"
    /\ builder.err.value = 1

OpenDegreeClassical ==
    (stage = "Done" /\ mode = "Open" /\ director.tag = "Ok" /\ nArg >= 2
        /\ director.dir.knots.type = "Sorted") =>
        LET d == Len(knotsArg) - nArg - 1
        IN  /\ builderBuilt.tag = "Curve" =>
                /\ d >= 1
                /\ builderBuilt.curve.degree = d
                /\ builderBuilt.curve.space.len >= Len(knotsArg) - nArg
            /\ d < 1 => (builderBuilt.tag = "Err" /\ builderBuilt.err.kind = "InvalidDegree")

\* The deferred chain new().<mode>().<elements>(n).knots(knots).<workspace>().build(),
\* with the elements call of the weight mode given and the workspace call that
\* yields the kind of provider given.
ExplicitChain(oc, m, weight, gen, n, knots, space) ==
    BuilderBuild(oc, ExplicitInner(oc, m, weight, gen, n, knots, space))

FixedWorkspaceChecked ==
    (stage = "Done" /\ director.tag = "Ok" /\ director.dir.space.type = "ConstSpace") =>
        LET roomy == DirectorBuild(overflowChecks, DirectorWorkspace(director.dir, CustomSpace(Modulus)))
            d == roomy.curve.degree
        IN  roomy.tag = "Curve" =>
                \A b \in {directorBuilt, builderBuilt} :
                    /\ (b.tag = "Err" /\ b.err.kind = "TooSmallWorkspace") <=> arg < d + 1
                    /\ arg >= d + 1 => (b.tag = "Curve" /\ b.curve.degree = d /\ b.curve.space.len = arg)

\* C8 witness: a valid configuration of degree 2 was refused a ConstSpace of 2 entries.
FixedWorkspaceWitness ==
    /\ stage = "Done"
    /\ director.tag = "Ok"
    /\ director.dir.space = ConstSpaceNew(2)
    /\ KnotsLen(overflowChecks, director.dir.knots) - nArg + 1 = 2
    /\ builderBuilt.tag = "Err"
    /\ builderBuilt.err.kind = "TooSmallWorkspace"

\* C9 as stated: dynamic() always completes, and sets the capacity to
\* (logical knot count - n + 2) without unsigned underflow, also with fewer
\* logical knots than elements.
DynamicAlwaysCompletes ==
    last = "dynamic" =>
        /\ director.tag # "Panic"
        /\ builder.tag # "Panic"
        /\ director.tag = "Ok" =>
            director.dir.space.len = KnotsLen(overflowChecks, director.dir.knots) - nArg + 2

\* C10 as stated: degree(d), quantity(q) and domain / normalized / distance
\* always complete, for every n, d and q, and store the values of the formulas
\* (open: n - 1 + d and q - n + 1; clamped: n - d + 1, n - q + 1 and deg - 1)
\* without unsigned underflow.
EquidistantStepsAlwaysComplete ==
    [][/\ last' \in {"degree", "quantity", "domain", "normalized", "distance"} =>
            director'.tag = "Ok" /\ builder'.tag = "Ok"
       /\ (last' = "degree" /\ director'.tag = "Ok") =>
            /\ director'.dir.knots.deg = arg'
            /\ director'.dir.knots.len = IF mode = "Open" THEN nArg - 1 + arg' ELSE nArg - arg' + 1
       /\ (last' = "quantity" /\ director'.tag = "Ok") =>
            /\ director'.dir.knots.len = arg'
            /\ director'.dir.knots.deg = IF mode = "Open" THEN arg' - nArg + 1 ELSE nArg - arg' + 1
       /\ (last' \in {"domain", "normalized", "distance"} /\ director'.tag = "Ok" /\ mode = "Clamped") =>
            director'.dir.knots.border = director.dir.knots.deg - 1]_vars

\* C11 as stated: a chain whose elements_with_weights was given a sequence of
\* length zero fails with the error Empty (the spec's EmptyGenerator): the step
\* that ends the eager chain returns that kind, and build() returns that kind
\* and no curve.
WeightedEmptyIsEmptyGenerator ==
    [][(director.tag = "Ok" /\ director.dir.weight = "WithWeight" /\ director.dir.elements = 0) =>
        /\ director'.tag # "Panic"
        /\ director'.tag = "Err" => director'.err.kind = "Empty"
        /\ stage' = "Done" =>
            /\ directorBuilt'.tag = "Err" /\ directorBuilt'.err.kind = "Empty"
            /\ builderBuilt'.tag = "Err" /\ builderBuilt'.err.kind = "Empty"]_vars

\* The director the chain would hold had elements(..) been given the same
\* number of elements without weights.
WithoutWeights(dir) == [dir EXCEPT !.weight = "WithoutWeight", !.weights = <<>>]

\* C12: the weights have no influence on construction: the build() of a
\* weighted chain returns a curve exactly when the unweighted chain of the same
\* element count, knots, mode and workspace does, with the same error
\* otherwise, and the curve has the same degree, knots and workspace; so does
\* the chain given any other weights, zero among them.
WeightsIgnoredByConstruction ==
    (stage = "Done" /\ director.tag = "Ok" /\ director.dir.weight = "WithWeight") =>
        LET plain == DirectorBuild(overflowChecks, WithoutWeights(director.dir))
        IN  /\ director.dir.weights = weightsArg
            /\ \A b \in {directorBuilt, builderBuilt} :
                /\ b.tag = plain.tag
                /\ b.err = plain.err
                /\ b.tag = "Curve" =>
                    /\ b.curve.weights = weightsArg
                    /\ WithoutWeights(b.curve) = plain.curve
            /\ \A gen \in WeightSeqs(nArg) :
                DirectorBuild(overflowChecks, [director.dir EXCEPT !.weights = gen]).tag
                    = builderBuilt.tag

\* C12 witness: the builder's test: three elements of weights 1, 2, 0,
\* equidistant knots, degree 2, domain [0, 5], a ConstSpace of 3 entries: built.
WeightsIgnoredWitness ==
    /\ stage = "Done"
    /\ mode = "Open"
    /\ weightsArg = <<1, 2, 0>>
    /\ director.tag = "Ok"
    /\ director.dir.knots.gen = "Equidistant"
    /\ director.dir.knots.len = 4
    /\ CoreGen(director.dir.knots, 0) = Rat(0, 1)
    /\ CoreGen(director.dir.knots, director.dir.knots.len - 1) = Rat(DomainEnd, 1)
    /\ director.dir.space = ConstSpaceNew(3)
    /\ builderBuilt.tag = "Curve"
    /\ builderBuilt.curve.weight = "WithWeight"
    /\ builderBuilt.curve.degree = 2

\* C13: a weighted curve built from elements that all have the weight 1
\* returns, at every sampled parameter, the value of the curve built from the
\* same elements without weights and the same knots, mode and workspace.
UnitWeightsAgree ==
    (stage = "Done" /\ director.tag = "Ok" /\ director.dir.weight = "WithWeight"
        /\ builderBuilt.tag = "Curve" /\ \A i \in DOMAIN weightsArg : weightsArg[i] = 1) =>
        LET plain == DirectorBuild(overflowChecks, WithoutWeights(director.dir))
        IN  /\ plain.tag = "Curve"
            /\ plain.curve.weight = "WithoutWeight"
            /\ builderBuilt.curve.weight = "WithWeight"
            /\ directorBuilt.curve = builderBuilt.curve
            /\ Take(builderBuilt.curve) = Take(plain.curve)

\* C13 witness: three elements of weight 1 with the open knots 0, 0, 1, 1: the
\* second sample, at t = 1/9, is 64/81 e0 + 16/81 e1 + 1/81 e2 with and
\* without weights.
UnitWeightsWitness ==
    /\ stage = "Done"
    /\ mode = "Open"
    /\ weightsArg = <<1, 1, 1>>
    /\ knotsArg = <<0, 0, 1, 1>>
    /\ director.tag = "Ok"
    /\ director.dir.knots.gen = "Sorted"
    /\ builderBuilt.tag = "Curve"
    /\ builderBuilt.curve.weight = "WithWeight"
    /\ Take(builderBuilt.curve)[2] = <<Rat(64, 81), Rat(16, 81), Rat(1, 81)>>
    /\ Evaluate(builderBuilt.curve, Rat(1, 9))
        = <<Rat(64, 81), Rat(16, 81), Rat(1, 81), Rat(1, 1)>>

EndsExact(c) ==
    /\ CurveGen(c, CurveDomain(c)[1]) = Unit(c.elements, 0)
    /\ CurveGen(c, CurveDomain(c)[2]) = Unit(c.elements, c.elements - 1)

\* The first and the last element of the curve have a weight other than zero.
EndsFinite(c) ==
    c.weight = "WithWeight" => (c.weights[1] # 0 /\ c.weights[c.elements] # 0)

\* The first logical knot occurs exactly degree times, and so does the last.
EndsPinned(oc, c) ==
    LET k == LogicalKnots(oc, c.knots)
        m == Len(k)
        d == c.degree
    IN  /\ \A i \in 1..d : k[i] = k[1] /\ k[m + 1 - i] = k[m]
        /\ k[d + 1] # k[1]
        /\ k[m - d] # k[m]

\* C15 as stated: every built curve returns its first control element at the
\* minimum of its domain and its last at the maximum. (Stated for the curves
\* whose first and last span are not empty and whose end elements do not have
\* the weight zero.)
EndsAlwaysExact ==
    (stage = "Done" /\ builderBuilt.tag = "Curve") =>
        LET c == builderBuilt.curve
            k == LogicalKnots(overflowChecks, c.knots)
        IN  (EndsFinite(c) /\ k[c.degree] # k[c.degree + 1] /\ k[c.elements - 1] # k[c.elements])
                => EndsExact(c)

\* C15 as amended: a built curve whose first and last logical knot each occur
\* exactly degree times, and whose end elements do not have the weight zero,
\* returns exactly its first control element at the minimum of its domain and
\* its last at the maximum; every curve built in clamped mode from strictly
\* increasing core knots is such a curve.
PinnedEndsExact ==
    (stage = "Done" /\ builderBuilt.tag = "Curve") =>
        LET c == builderBuilt.curve
            core == c.knots
        IN  /\ (mode = "Clamped" /\ \A i \in 1..(core.len - 1) : RLt(CoreGen(core, i - 1), CoreGen(core, i)))
                    => EndsPinned(overflowChecks, c)
            /\ (EndsPinned(overflowChecks, c) /\ EndsFinite(c)) => EndsExact(c)

\* C15 witness: a clamped curve of degree 2 over three elements with
\* equidistant knots has been built, and it returns its first and its last
\* control element at the ends of its domain.
PinnedEndsWitness ==
    /\ stage = "Done"
    /\ mode = "Clamped"
    /\ builderBuilt.tag = "Curve"
    /\ builderBuilt.curve.elements = 3
    /\ builderBuilt.curve.degree = 2
    /\ builderBuilt.curve.knots.gen = "Equidistant"
    /\ EndsPinned(overflowChecks, builderBuilt.curve)
    /\ EndsFinite(builderBuilt.curve)
    /\ EndsExact(builderBuilt.curve)

\* C16: in every step of any interleaving of calls of gen on the same curve,
\* the threads in a call hold different workspace buffers, every live buffer
\* belongs to a thread in a call (none is retained), the curve is not written,
\* and a call that has returned has the value gen has for its parameter when
\* it runs alone.
ConcurrentEvaluationSafe ==
    [][/\ builderBuilt' = builderBuilt
       /\ \A a, b \in Threads :
            (a # b /\ call'[a].ref # 0 /\ call'[b].ref # 0) => call'[a].ref # call'[b].ref
       /\ \A id \in BufferIds : heap'[id].live <=> \E th \in Threads : call'[th].ref = id
       /\ \A th \in Threads :
            (call[th].pc = "blend" /\ call'[th].pc = "done") =>
                call'[th].value = CurveGen(builderBuilt.curve,
                                           EvalParam(builderBuilt.curve, call'[th].t))]_vars

\* C16 witness: on a curve of degree 2 both threads are in the second pass of
\* the recurrence at once, at different parameters, each in its own buffer.
ConcurrentEvaluationWitness ==
    /\ builderBuilt.tag = "Curve"
    /\ builderBuilt.curve.degree = 2
    /\ call["a"].pc = "blend" /\ call["a"].r = 2
    /\ call["b"].pc = "blend" /\ call["b"].r = 2
    /\ call["a"].t # call["b"].t
    /\ call["a"].ref # call["b"].ref
    /\ heap[call["a"].ref].data # heap[call["b"].ref].data

\* C17: every workspace() of a ConstSpace or a DynSpace hands out a buffer of
\* exactly len() entries, all the default value, however many buffers were
\* handed out and written before, and leaves the provider as it was; a call of
\* gen returns the value the first call at the same parameter returned.
WorkspaceStateless ==
    [][/\ \A th \in Threads :
            (call[th].pc \in {"idle", "done"} /\ call'[th].pc = "workspace") =>
                LET c == builderBuilt.curve
                    buffer == heap'[call'[th].ref].data
                IN  /\ c.space.type \in {"ConstSpace", "DynSpace"}
                    /\ Len(buffer) = c.space.len
                    /\ \A i \in 1..Len(buffer) : buffer[i] = Zero(Width(c))
                    /\ builderBuilt'.curve.space = c.space
       /\ \A th \in Threads :
            (call[th].pc = "blend" /\ call'[th].pc = "done" /\ returned[call'[th].t] # <<>>) =>
                call'[th].value = returned[call'[th].t]]_vars

\* C17 witness: a thread is handed a workspace for its second call while the
\* other thread is writing its own, after a call at the same parameter has
\* returned.
WorkspaceStatelessWitness ==
    /\ builderBuilt.tag = "Curve"
    /\ builderBuilt.curve.space.type = "ConstSpace"
    /\ call["a"].pc = "workspace"
    /\ returned[call["a"].t] # <<>>
    /\ call["b"].pc = "blend" /\ call["b"].r = 2
    /\ heap[call["a"].ref].data = [i \in 1..builderBuilt.curve.space.len |-> Zero(Width(builderBuilt.curve))]
    /\ heap[call["b"].ref].data # heap[call["a"].ref].data

EquidistantDomainIsCurveDomain ==
    (stage = "Done" /\ builderBuilt.tag = "Curve" /\ mode \in {"Open", "Clamped"}
        /\ builderBuilt.curve.knots.gen = "Equidistant"
        /\ builderBuilt.curve.knots.den = builderBuilt.curve.knots.len - 1) =>
        LET k == builderBuilt.curve.knots
        IN  CurveDomain(builderBuilt.curve) = <<Rat(k.start, 1), Rat(k.start + k.num, 1)>>

\* The calls that select the mode, supply the elements, place equidistant
\* knots and select the workspace.
ModeCalls == {"open", "clamped", "legacy"}
ElementCalls == {"elements", "elements_with_weights"}
DomainCalls == {"domain", "normalized", "distance"}
SpaceCalls == {"dynamic", "constant", "workspace"}

\* The calls the order of C20 lets follow a call.
MayFollow(prev) ==
    CASE prev \in {"new"} \cup ModeCalls -> ModeCalls \cup ElementCalls
      [] prev \in ElementCalls -> {"knots", "equidistant"}
      [] prev = "equidistant" -> {"degree", "quantity"}
      [] prev \in {"degree", "quantity"} -> DomainCalls
      [] prev \in {"knots"} \cup DomainCalls -> SpaceCalls
      [] prev \in SpaceCalls -> {"build"}
      [] OTHER -> {}

\* A step that selects the mode stores the mode called and changes no other
\* field; any other step leaves the mode as it is. A new builder is Open.
ModeSelection ==
    /\ last = "new" => (mode = "Open" /\ director.dir.mode = "Open" /\ builder.dir.mode = "Open")
    /\ last' \in ModeCalls =>
        /\ mode' = CASE last' = "open" -> "Open" [] last' = "clamped" -> "Clamped"
                     [] OTHER -> "Legacy"
        /\ director' = Ok([director.dir EXCEPT !.mode = mode'])
        /\ builder' = director'
        /\ UNCHANGED <<nArg, weightsArg, knotsArg, arg>>
    /\ last' \notin ModeCalls =>
        /\ mode' = mode
        /\ director'.tag = "Ok" => director'.dir.mode = mode
        /\ builder'.tag = "Ok" => builder'.dir.mode = mode

\* C20 as stated: every call is one the order lets follow the call before it
\* (mode, elements, knots or equidistant - degree or quantity - domain,
\* normalized or distance, workspace, build), and the mode is selected as
\* ModeSelection says.
CallOrderStrict ==
    [][last' \in MayFollow(last) /\ ModeSelection]_vars

\* C20 as amended: as stated, except that equidistant() is also accepted
\* before the elements are supplied, on a new builder or after a mode call,
\* and that no call at all is accepted after that.
CallOrder ==
    [][/\ \/ last' \in MayFollow(last) /\ stage # "TypeWithoutElements"
          \/ /\ last \in {"new"} \cup ModeCalls
             /\ last' = "equidistant"
             /\ stage = "New" /\ stage' = "TypeWithoutElements"
             /\ director'.dir.weight = "Unknown"
       /\ last' = "build" =>
            /\ stage = "Space"
            /\ director.tag = "Ok" =>
                /\ director.dir.weight # "Unknown"
                /\ director.dir.knots.type \notin {"Unknown", "Type", "UnknownDomain"}
                /\ director.dir.space.type # "Unknown"
       /\ ModeSelection]_vars

\* C20 witness: a chain legacy, clamped, elements, equidistant, degree,
\* domain, workspace call, build has built a clamped curve.
CallOrderWitness ==
    /\ stage = "Done"
    /\ last = "build"
    /\ mode = "Clamped"
    /\ director.tag = "Ok"
    /\ director.dir.mode = "Clamped"
    /\ director.dir.knots.gen = "Equidistant"
    /\ builderBuilt.tag = "Curve"
    /\ builderBuilt.curve.degree = 2

\* The (knot count, degree) pair C21 gives for degree(d) and for quantity(q)
\* on n elements.
PairOfDegree(m, n, d) == IF m = "Open" THEN <<n - 1 + d, d>> ELSE <<n - d + 1, d>>
PairOfQuantity(m, n, q) == IF m = "Open" THEN <<q, q - n + 1>> ELSE <<q, n - q + 1>>

\* C21: in open and clamped mode, where no usize operation overflows,
\* degree(d) stores the pair (n - 1 + d, d) resp. (n - d + 1, d) and
\* quantity(q) the pair (q, q - n + 1) resp. (q, n - q + 1); quantity of the
\* knot count degree(d) stored yields the same director as degree(d), and
\* degree of the degree quantity(q) stored the same director as quantity(q).
DegreeQuantityInverse ==
    (last \in {"degree", "quantity"} /\ director.tag = "Ok") =>
        LET before == [director.dir EXCEPT !.knots = TypeKnots]
            k == director.dir.knots
            called == IF last = "degree" THEN DirectorDegree(TRUE, before, arg)
                      ELSE DirectorQuantity(TRUE, before, arg)
            inverse == IF last = "degree" THEN DirectorQuantity(TRUE, before, k.len)
                       ELSE DirectorDegree(TRUE, before, k.deg)
        IN  /\ builder = director
            /\ k.type = "UnknownDomain"
            /\ called.tag = "Ok" =>
                /\ director = called
                /\ <<k.len, k.deg>> = IF last = "degree" THEN PairOfDegree(mode, nArg, arg)
                                      ELSE PairOfQuantity(mode, nArg, arg)
                /\ inverse.tag = "Ok" => inverse = director

\* C21 witness: clamped quantity(2) on three elements stored the pair (2, 2),
\* the pair degree(2) stores.
DegreeQuantityWitness ==
    /\ last = "quantity"
    /\ mode = "Clamped"
    /\ nArg = 3
    /\ arg = 2
    /\ director.tag = "Ok"
    /\ director.dir.knots.len = 2
    /\ director.dir.knots.deg = 2
    /\ DirectorDegree(TRUE, [director.dir EXCEPT !.knots = TypeKnots], 2) = director

\* C22: in clamped mode with n elements, degree(d) with 1 <= d <= n followed
\* by domain, normalized or distance stores L = n - d + 1 equidistant core
\* knots behind d - 1 copies of each border knot; explicit clamped knots()
\* given L knots for the same elements stores the same number of copies; the
\* logical knot count is n + d - 1, the count open degree(d) stores.
ClampedEquidistantAgrees ==
    [][(last = "degree" /\ last' \in DomainCalls /\ mode = "Clamped" /\ director.tag = "Ok"
            /\ 1 <= arg /\ arg <= nArg) =>
        LET n == nArg
            d == arg
            L == n - d + 1
            k == director'.dir.knots
            fresh == [director.dir EXCEPT !.knots = UnknownKnots]
            explicit == DirectorKnotsClamped(fresh, Repeat(0, L))
            open == DirectorDegreeOpen(TRUE, [fresh EXCEPT !.mode = "Open", !.knots = TypeKnots], d)
        IN  /\ director'.tag = "Ok"
            /\ builder' = director'
            /\ k.type = "BorderBuffer" /\ k.gen = "Equidistant"
            /\ k.len = L
            /\ k.border = d - 1
            /\ explicit.tag = "Ok"
            /\ explicit.dir.knots.len = L
            /\ explicit.dir.knots.border = k.border
            /\ KnotsLen(TRUE, k) = n + d - 1
            /\ KnotsLen(TRUE, explicit.dir.knots) = KnotsLen(TRUE, k)
            /\ open.tag = "Ok"
            /\ open.dir.knots.len = KnotsLen(TRUE, k)]_vars

\* C22 witness: clamped, three elements, degree 2 and a domain call: two
\* core knots behind one copy of each, four logical knots.
ClampedEquidistantWitness ==
    /\ last \in DomainCalls
    /\ mode = "Clamped"
    /\ nArg = 3
    /\ arg = 2
    /\ director.tag = "Ok"
    /\ director.dir.knots.type = "BorderBuffer"
    /\ director.dir.knots.gen = "Equidistant"
    /\ director.dir.knots.len = 2
    /\ director.dir.knots.border = 1
    /\ KnotsLen(TRUE, director.dir.knots) = 4

====
